---- MODULE Spec2Model ----
(***************************************************************************)
(* Model of mp4amp3.py: a Tk front end (App) that converts a list of MP4   *)
(* files to MP3 with ffmpeg, one file at a time, in a background thread    *)
(* (App.convert_all) that reports through a queue.Queue polled by the UI   *)
(* thread (App.poll_queue / App.handle_msg).                               *)
(*                                                                         *)
(* Conventions.                                                            *)
(*  - A Python value that may be None is a tuple: <<>> is None, <<x>> is x.*)
(*  - A queue message is the tuple the code puts, kind first.              *)
(*  - A line of ffmpeg's -progress stream is the tuple of its parts after  *)
(*    strip() and split("=", 1): <<>> a blank line, <<t>> a line without   *)
(*    "=", <<key, value>> otherwise (both strings).                        *)
(*  - Times are whole seconds, percentages whole percents; the inputs are  *)
(*    chosen so that the code's float divisions are exact on them.         *)
(*  - A progress-bar value of the total bar is the exact fraction          *)
(*    <<num, den>> (num/den percent).                                      *)
(*  - The texts of the labels are not modelled, only the values of the    *)
(*    progress bars, the state of the buttons and the message box shown.   *)
(*  - A text (stderr excerpt, exception text) is [src, len]: where it      *)
(*    comes from and how many characters it has.                           *)
(***************************************************************************)
EXTENDS Integers, Sequences, FiniteSets, TLC

\* ---------------------------------------------------------------- bounds
MaxFiles == 3      \* files selected in one batch
MaxLines == 2      \* lines read from one process's progress stream
MaxQueue == 1      \* messages waiting in q before the worker is held back
MaxPipe == 1       \* writes the stderr pipe's buffer holds before one blocks

\* ------------------------------------------------------- program constants
UsPerSecond == 1000000   \* out_time_ms / 1_000_000.0
ExcerptLen == 800        \* err.strip()[:800]
PctMax == 100            \* frac * 100.0, Progressbar maximum=100

\* ------------------------------------------------------------ input sets
AllFiles == <<"a.mp4", "b.mp4", "c.mp4", "d.mp4">>
Selections == {SubSeq(AllFiles, 1, n) : n \in 0..MaxFiles}
Dests == {"", "/out"}

\* What ffprobe's run gives: it cannot be run or its output is not a number
\* (float() raises), or the number it prints.
ProbeRuns == {[raises |-> TRUE, value |-> 0]}
             \cup {[raises |-> FALSE, value |-> v] : v \in {-1, 0, 2}}

\* Lines the child may write on its progress stream.
IntTable == [s \in {"-1000000", "1000000", "3000000"} |->
               CASE s = "-1000000" -> 0 - 1000000
                 [] s = "1000000"  -> 1000000
                 [] s = "3000000"  -> 3000000]
Lines == {<<>>, <<"frame 12">>,
          <<"out_time_ms", "-1000000">>, <<"out_time_ms", "1000000">>,
          <<"out_time_ms", "3000000">>, <<"out_time_ms", "N/A">>,
          <<"speed", "1.5x">>, <<"fps", "30">>,
          <<"progress", "continue">>, <<"progress", "end">>}

\* Diagnostic output a failed process leaves on stderr (after strip()), and
\* the text of an exception raised while reading.
StderrLens == {0, 900}
ExcLens == {4}
ReturnCodes == {0, 1}

None == <<>>
Some(x) == <<x>>
Max(a, b) == IF a >= b THEN a ELSE b
Min(a, b) == IF a <= b THEN a ELSE b
Text(src, len) == [src |-> src, len |-> len]
EmptyText == Text("empty", 0)
UnknownError == Text("Error desconocido", 17)

VARIABLES
  \* App fields
  files, dest, total_count, done_count, current_pct, current_speed, errors,
  cancel, q,
  \* widgets
  btn_start, btn_cancel, pb_file, pb_total, notice,
  \* the worker thread: where it is in convert_all / run_ffmpeg_with_progress
  pc, idx, duration, last_out_time, last_speed, nread, p,
  \* history: what has been put on q in this batch, how each job went, the
  \* last probe, and where the worker was when cancel was asked
  lastPut, lastPct, nNewFile, nFileDone, nAllDone, result, probed, cancelAt,
  \* history: worker threads and child processes alive, and whether the last
  \* call of start_flow was made with no file or no destination
  nWorkers, nProcs, startBlank,
  \* one run of run_ffmpeg_with_progress followed in detail (RunnerSpec): the
  \* lines the child writes on its progress stream, the messages the run has
  \* put with the number of the line each comes from (0: none), and how much
  \* of the stderr pipe's buffer is filled
  stream, puts, stderr_pipe

appVars == <<files, dest, total_count, done_count, current_pct, current_speed,
             errors, cancel>>
widgetVars == <<btn_start, btn_cancel, pb_file, pb_total, notice>>
locals == <<duration, last_out_time, last_speed, nread>>
workerVars == <<pc, idx, locals, p>>
histVars == <<lastPut, lastPct, nNewFile, nFileDone, nAllDone, result,
              probed>>
liveVars == <<nWorkers, nProcs>>
runVars == <<stream, puts, stderr_pipe>>
vars == <<appVars, q, widgetVars, workerVars, histVars, cancelAt, liveVars,
          startBlank, runVars>>

Jobs == 1..MaxFiles
NoPuts == [k \in Jobs |-> 0]
NoResults == [k \in Jobs |-> "none"]

\* ------------------------------------------------ ffprobe_duration_seconds
ffprobe_duration_seconds(run) == IF run.raises THEN 0 ELSE run.value

\* run_ffmpeg_with_progress, lines 30-33: a duration <= 0 becomes None
ProbedDuration(run) ==
  LET d == ffprobe_duration_seconds(run) IN IF d <= 0 THEN None ELSE Some(d)

\* (variant: a value that is not an integer counts as 0)
OutTimeS_ZeroOnError(value, last) ==
  IF value \in DOMAIN IntTable THEN IntTable[value] \div UsPerSecond ELSE 0

\* lines 75-79: int(value) / 1_000_000.0, or the last value on ValueError
OutTimeS(value, last) ==
  IF value \in DOMAIN IntTable THEN IntTable[value] \div UsPerSecond ELSE last

\* (variant: the fraction is not clamped)
Pct_Unclamped(out_time_s, dur) ==
  IF dur # None THEN (out_time_s * PctMax) \div dur[1] ELSE 0

\* lines 83-89
Pct(out_time_s, dur) ==
  IF dur # None
  THEN Max(0, Min(PctMax, (out_time_s * PctMax) \div dur[1]))
  ELSE 0
Eta(out_time_s, dur) ==
  IF dur # None THEN Some(Max(0, dur[1] - out_time_s)) ELSE None

\* line 107: err.strip()[:800]
Excerpt(len) == Text("stderr", Min(len, ExcerptLen))

\* ------------------------------------------------------------------ Init
Init ==
  /\ files = <<>> /\ dest = "" /\ total_count = 0 /\ done_count = 0
  /\ current_pct = 0 /\ current_speed = None /\ errors = <<>>
  /\ cancel = FALSE /\ q = <<>>
  /\ btn_start = "normal" /\ btn_cancel = "disabled"
  /\ pb_file = 0 /\ pb_total = <<0, 1>>
  /\ notice = None
  /\ pc = "none" /\ idx = 0 /\ duration = None /\ last_out_time = 0
  /\ last_speed = None /\ nread = 0 /\ p = "none"
  /\ lastPut = None /\ lastPct = None /\ nNewFile = 0 /\ nFileDone = NoPuts
  /\ nAllDone = 0 /\ result = NoResults /\ probed = None /\ cancelAt = None
  /\ nWorkers = 0 /\ nProcs = 0 /\ startBlank = FALSE
  /\ stream = <<>> /\ puts = <<>> /\ stderr_pipe = 0


\* ------------------------------------------------------ q.put, with history
KindOf(m) == m[1]
Emit(m) ==
  /\ Len(q) < MaxQueue
  /\ q' = Append(q, m)
  /\ lastPut' = Some(<<idx, m>>)
  /\ nNewFile' = IF KindOf(m) = "new_file" THEN nNewFile + 1 ELSE nNewFile
  /\ nFileDone' = IF KindOf(m) = "file_done"
                  THEN [nFileDone EXCEPT ![idx] = @ + 1] ELSE nFileDone
  /\ nAllDone' = IF KindOf(m) = "all_done" THEN nAllDone + 1 ELSE nAllDone
  /\ lastPct' = CASE KindOf(m) = "file_progress" -> Some(m[2])
                  [] KindOf(m) = "file_done" -> None
                  [] OTHER -> lastPct

\* ------------------------------------------------------- App.start_flow
\* lines 189-196: the two checks start_flow returns at
\* (variant: the destination is not checked)
Refused_FilesOnly(sel, d) == sel = <<>>
Refused(sel, d) == sel = <<>> \/ d = ""

\* (variant: done_count is not reset for the new batch)
start_flow_KeepsDoneCount(sel, d) ==
  /\ btn_start = "normal"
  /\ startBlank' = (sel = <<>> \/ d = "")
  /\ IF Refused(sel, d)
     THEN /\ UNCHANGED <<appVars, q, widgetVars, workerVars, histVars,
                         cancelAt, liveVars, runVars>>
     ELSE /\ files' = sel /\ dest' = d
          /\ total_count' = Len(sel) /\ UNCHANGED done_count
          /\ current_pct' = 0 /\ current_speed' = None
          /\ errors' = <<>> /\ cancel' = FALSE
          /\ pb_file' = 0 /\ pb_total' = <<0, 1>>
          /\ btn_start' = "disabled" /\ btn_cancel' = "normal"
          /\ notice' = None
          /\ pc' = "loop" /\ idx' = 1
          /\ duration' = None /\ last_out_time' = 0 /\ last_speed' = None
          /\ nread' = 0 /\ p' = "none"
          /\ lastPut' = None /\ lastPct' = None /\ nNewFile' = 0
          /\ nFileDone' = NoPuts /\ nAllDone' = 0 /\ result' = NoResults
          /\ probed' = None
          /\ cancelAt' = None
          /\ nWorkers' = nWorkers + 1
          /\ UNCHANGED <<q, nProcs, runVars>>

start_flow(sel, d) ==
  /\ btn_start = "normal"
  /\ startBlank' = (sel = <<>> \/ d = "")
  /\ IF Refused(sel, d)
     THEN /\ UNCHANGED <<appVars, q, widgetVars, workerVars, histVars,
                         cancelAt, liveVars, runVars>>
     ELSE /\ files' = sel /\ dest' = d
          /\ total_count' = Len(sel) /\ done_count' = 0
          /\ current_pct' = 0 /\ current_speed' = None
          /\ errors' = <<>> /\ cancel' = FALSE
          /\ pb_file' = 0 /\ pb_total' = <<0, 1>>
          /\ btn_start' = "disabled" /\ btn_cancel' = "normal"
          /\ notice' = None
          /\ pc' = "loop" /\ idx' = 1
          /\ duration' = None /\ last_out_time' = 0 /\ last_speed' = None
          /\ nread' = 0 /\ p' = "none"
          /\ lastPut' = None /\ lastPct' = None /\ nNewFile' = 0
          /\ nFileDone' = NoPuts /\ nAllDone' = 0 /\ result' = NoResults
          /\ probed' = None
          /\ cancelAt' = None
          /\ nWorkers' = nWorkers + 1
          /\ UNCHANGED <<q, nProcs, runVars>>

\* ----------------------------------------------------- App.request_cancel
\* Where the worker is when cancel is asked: at the head of an iteration
\* ("loop"), past its cancel check ("new_file"), inside
\* run_ffmpeg_with_progress before the process exists ("launching") or with
\* it ("converting"), or past the loop ("ended").
Phase(at) ==
  CASE at \in {"loop", "new_file"} -> at
    [] at \in {"probe", "popen"} -> "launching"
    [] at \in {"read", "wait"} -> "converting"
    [] OTHER -> "ended"

\* (variant: cancelling also kills the running process)
request_cancel_KillsProcess ==
  /\ btn_cancel = "normal"
  /\ cancel' = TRUE
  /\ btn_cancel' = "disabled"
  /\ cancelAt' = Some(<<Phase(pc), idx>>)
  /\ p' = IF p = "running" THEN "killed" ELSE p
  /\ UNCHANGED <<files, dest, total_count, done_count, current_pct,
                 current_speed, errors, q, btn_start, pb_file, pb_total,
                 notice, pc, idx, locals, histVars, liveVars, startBlank,
                 runVars>>

request_cancel ==
  /\ btn_cancel = "normal"
  /\ cancel' = TRUE
  /\ btn_cancel' = "disabled"
  /\ cancelAt' = Some(<<Phase(pc), idx>>)
  /\ UNCHANGED <<files, dest, total_count, done_count, current_pct,
                 current_speed, errors, q, btn_start, pb_file, pb_total,
                 notice, workerVars, histVars, liveVars, startBlank,
                 runVars>>

\* --------------------------------------------------------- App.handle_msg
TotalBar(done, pct) == <<done * PctMax + pct, Max(1, total_count)>>

\* lines 312-323: the message box of the all_done branch
\* (variant: the error list is looked at before the cancel flag)
Notice_ErrorsFirst ==
  IF errors # <<>> THEN "Terminado con errores"
  ELSE IF cancel THEN "Cancelado" ELSE "Listo"
Notice == IF cancel THEN "Cancelado"
          ELSE IF errors # <<>> THEN "Terminado con errores" ELSE "Listo"

\* lines 297-300: both branches of "if ok" add one
\* (variant: a failure is not counted)
NextDoneCount_SuccessOnly(ok) == IF ok THEN done_count + 1 ELSE done_count
NextDoneCount(ok) == IF ok THEN done_count + 1 ELSE done_count + 1

\* The state of the start button after a message of this kind is handled:
\* only the all_done branch touches it (line 310).
\* (variant: the button is enabled again after each file)
StartButtonAfter_EachFile(kind) ==
  IF kind \in {"file_done", "all_done"} THEN "normal" ELSE btn_start
StartButtonAfter(kind) == IF kind = "all_done" THEN "normal" ELSE btn_start

handle_msg(msg) ==
  CASE KindOf(msg) = "new_file" ->
         /\ current_pct' = 0 /\ current_speed' = None /\ pb_file' = 0
         /\ UNCHANGED <<done_count, errors, pb_total, btn_start, btn_cancel,
                        notice>>
    [] KindOf(msg) = "file_progress" ->
         /\ current_pct' = msg[2] /\ pb_file' = msg[2]
         /\ pb_total' = TotalBar(done_count, msg[2])
         /\ UNCHANGED <<current_speed, done_count, errors,
                        btn_start, btn_cancel, notice>>
    [] KindOf(msg) = "speed" ->
         /\ current_speed' = msg[2]
         /\ UNCHANGED <<current_pct, done_count, errors, pb_file, pb_total,
                        btn_start, btn_cancel, notice>>
    [] KindOf(msg) = "file_done" ->
         /\ done_count' = NextDoneCount(msg[2])
         /\ errors' = IF msg[2] THEN errors
                      ELSE Append(errors, IF msg[3].len > 0 THEN msg[3]
                                          ELSE UnknownError)
         /\ pb_total' = TotalBar(done_count', 0)
         /\ btn_start' = StartButtonAfter("file_done")
         /\ UNCHANGED <<current_pct, current_speed, pb_file,
                        btn_cancel, notice>>
    [] KindOf(msg) = "all_done" ->
         /\ btn_start' = StartButtonAfter("all_done")
         /\ btn_cancel' = "disabled"
         /\ notice' = Some(Notice)
         /\ UNCHANGED <<current_pct, current_speed, done_count, errors,
                        pb_file, pb_total>>

\* --------------------------------------------------------- App.poll_queue
\* One turn of the while loop: get_nowait and handle_msg. On an empty queue
\* the loop ends and the next poll is scheduled, which changes nothing. The
\* worker runs between two turns; a click is served between two polls, which
\* the worker cannot tell from a click between two turns.
poll_queue ==
  /\ q # <<>>
  /\ q' = Tail(q)
  /\ handle_msg(Head(q))
  /\ UNCHANGED <<files, dest, total_count, cancel, workerVars, histVars,
                 cancelAt, liveVars, startBlank, runVars>>

\* ------------------------------------------------------- App.convert_all
uiVars == <<files, dest, total_count, done_count, current_pct, current_speed,
            errors, cancel, widgetVars, cancelAt, startBlank>>

\* The for statement and the cancel check of one iteration.
\* (variant: the loop never looks at the flag)
LoopEnds_IgnoresCancel == idx > Len(files)
LoopEnds == idx > Len(files) \/ cancel

convert_all_next ==
  /\ pc = "loop"
  /\ pc' = IF LoopEnds THEN "all_done" ELSE "new_file"
  /\ UNCHANGED <<uiVars, q, idx, locals, p, histVars, liveVars, runVars>>

convert_all_new_file ==
  /\ pc = "new_file"
  /\ Emit(<<"new_file", idx, total_count, files[idx]>>)
  /\ pc' = "probe"
  /\ UNCHANGED <<uiVars, idx, locals, p, result, probed, liveVars, runVars>>

convert_all_all_done ==
  /\ pc = "all_done"
  /\ Emit(<<"all_done">>)
  /\ pc' = "done"
  /\ nWorkers' = nWorkers - 1
  /\ UNCHANGED <<uiVars, idx, locals, p, result, probed, nProcs, runVars>>

\* ------------------------------------------------ run_ffmpeg_with_progress
run_probe(run) ==
  /\ pc = "probe"
  /\ duration' = ProbedDuration(run)
  /\ pc' = "popen"
  /\ probed' = Some(<<idx, ProbedDuration(run)>>)
  /\ UNCHANGED <<uiVars, q, idx, last_out_time, last_speed, nread, p,
                 lastPut, lastPct, nNewFile, nFileDone, nAllDone, result,
                 liveVars, runVars>>

\* subprocess.Popen: the process starts, or Popen raises. Popen is outside
\* the try statement, and convert_all has none: the exception ends the thread.
run_popen(started) ==
  /\ pc = "popen"
  /\ IF started
     THEN /\ p' = "running" /\ pc' = "read"
          /\ last_out_time' = 0 /\ last_speed' = None
          /\ nProcs' = nProcs + 1
          /\ UNCHANGED <<result, nWorkers>>
     ELSE /\ pc' = "dead"
          /\ result' = [result EXCEPT ![idx] = "launch"]
          /\ nWorkers' = nWorkers - 1
          /\ UNCHANGED <<p, last_out_time, last_speed, nProcs>>
  /\ UNCHANGED <<uiVars, q, idx, duration, nread, lastPut, lastPct, nNewFile,
                 nFileDone, nAllDone, probed, runVars>>

\* lines 98-99: the line that ends the loop
\* (variant: no line ends the loop)
IsEnd_Never(key, value) == FALSE
IsEnd(key, value) == key = "progress" /\ value = "end"

\* One turn of "for line in p.stdout": the child has written a line (which
\* it cannot do while it is stopped on a write to stderr).
ReadLine(line) ==
  /\ pc = "read" /\ nread < MaxLines /\ p = "running"
  /\ nread' = nread + 1
  /\ IF Len(line) < 2
     THEN UNCHANGED <<pc, last_out_time, last_speed, q, histVars>>
     ELSE LET key == line[1]
              value == line[2]
              out_time_s == OutTimeS(value, last_out_time)
          IN CASE key = "out_time_ms" ->
                    /\ last_out_time' = out_time_s
                    /\ Emit(<<"file_progress", Pct(out_time_s, duration),
                              out_time_s, last_speed,
                              Eta(out_time_s, duration)>>)
                    /\ UNCHANGED <<pc, last_speed, result, probed>>
               [] key = "speed" ->
                    /\ last_speed' = Some(value)
                    /\ Emit(<<"speed", Some(value)>>)
                    /\ UNCHANGED <<pc, last_out_time, result, probed>>
               [] IsEnd(key, value) ->
                    /\ pc' = "wait"
                    /\ UNCHANGED <<last_out_time, last_speed, q, histVars>>
               [] OTHER ->
                    UNCHANGED <<pc, last_out_time, last_speed, q, histVars>>
  /\ UNCHANGED <<uiVars, idx, duration, p, liveVars>>

run_read_line(line) == ReadLine(line) /\ UNCHANGED runVars

\* The stream ends: the child has closed its stdout.
ReadEof ==
  /\ pc = "read" /\ p = "running"
  /\ pc' = "wait"
  /\ UNCHANGED <<uiVars, q, idx, locals, p, histVars, liveVars>>

run_read_eof == ReadEof /\ UNCHANGED runVars

\* The function returns to convert_all's loop.
Return ==
  /\ pc' = "loop" /\ idx' = idx + 1
  /\ duration' = None /\ last_out_time' = 0 /\ last_speed' = None
  /\ nread' = 0

\* p.wait() and the report of the exit status: the child has exited (which
\* it cannot do while it is stopped on a write to stderr).
Wait(rc, errlen) ==
  /\ pc = "wait" /\ p = "running"
  /\ p' = "exited"
  /\ nProcs' = nProcs - 1
  /\ IF rc = 0
     THEN /\ Emit(<<"file_done", TRUE, EmptyText>>)
          /\ result' = [result EXCEPT ![idx] = "ok"]
     ELSE /\ Emit(<<"file_done", FALSE, Excerpt(errlen)>>)
          /\ result' = [result EXCEPT ![idx] = "exit"]
  /\ Return
  /\ UNCHANGED <<uiVars, probed, nWorkers>>

run_wait(rc, errlen) == Wait(rc, errlen) /\ UNCHANGED runVars

\* (variant: the exception is not caught and ends the thread)
Except_Propagates(len) ==
  /\ pc \in {"read", "wait"} /\ p = "running"
  /\ pc' = "dead"
  /\ nWorkers' = nWorkers - 1
  /\ result' = [result EXCEPT ![idx] = "exception"]
  /\ UNCHANGED <<uiVars, q, idx, locals, p, lastPut, lastPct, nNewFile,
                 nFileDone, nAllDone, probed, nProcs>>

\* An exception inside the try statement, raised on something read from the
\* child or on its exit: kill, report, return.
Except(len) ==
  /\ pc \in {"read", "wait"} /\ p = "running"
  /\ p' = "killed"
  /\ nProcs' = nProcs - 1
  /\ Emit(<<"file_done", FALSE, Text("exception", len)>>)
  /\ result' = [result EXCEPT ![idx] = "exception"]
  /\ Return
  /\ UNCHANGED <<uiVars, probed, nWorkers>>

run_exception(len) == Except(len) /\ UNCHANGED runVars

\* ------------------------------------------------------------------ Next
Next ==
  \/ \E sel \in Selections, d \in Dests : start_flow(sel, d)
  \/ request_cancel
  \/ poll_queue
  \/ convert_all_next
  \/ convert_all_new_file
  \/ convert_all_all_done
  \/ \E run \in ProbeRuns : run_probe(run)
  \/ \E started \in BOOLEAN : run_popen(started)
  \/ \E line \in Lines : run_read_line(line)
  \/ run_read_eof
  \/ \E rc \in ReturnCodes, errlen \in StderrLens : run_wait(rc, errlen)
  \/ \E len \in ExcLens : run_exception(len)

Spec == Init /\ [][Next]_vars

\* ------------------------------------- one run of the runner, in detail
\* RunnerSpec follows one call of run_ffmpeg_with_progress from the return of
\* Popen: the child's progress stream is fixed beforehand, every message the
\* call puts is recorded with the line it comes from, and the child also
\* writes to stderr, which the call reads only after p.wait().
Streams == UNION {[1..n -> Lines] : n \in 0..MaxLines}
RunDurations == {ProbedDuration(run) : run \in ProbeRuns}

\* The state on return of Popen for the only file of a batch, the new_file
\* message already handled.
RunnerInit ==
  /\ files = SubSeq(AllFiles, 1, 1) /\ dest = "/out"
  /\ total_count = 1 /\ done_count = 0
  /\ current_pct = 0 /\ current_speed = None /\ errors = <<>>
  /\ cancel = FALSE /\ q = <<>>
  /\ btn_start = "disabled" /\ btn_cancel = "normal"
  /\ pb_file = 0 /\ pb_total = <<0, 1>>
  /\ notice = None
  /\ pc = "read" /\ idx = 1 /\ duration \in RunDurations
  /\ last_out_time = 0 /\ last_speed = None /\ nread = 0 /\ p = "running"
  /\ lastPut = Some(<<1, <<"new_file", 1, 1, files[1]>>>>)
  /\ lastPct = None /\ nNewFile = 1 /\ nFileDone = NoPuts
  /\ nAllDone = 0 /\ result = NoResults
  /\ probed = Some(<<1, duration>>) /\ cancelAt = None
  /\ nWorkers = 1 /\ nProcs = 1 /\ startBlank = FALSE
  /\ stream \in Streams /\ puts = <<>> /\ stderr_pipe = 0

\* puts after a step of the call that comes from line n (0: from no line)
PutsAfter(n) == IF Len(q') = Len(q) + 1
                THEN Append(puts, <<n, q'[Len(q')]>>) ELSE puts

\* "for line in p.stdout" on the fixed stream
stream_line ==
  /\ nread < Len(stream)
  /\ ReadLine(stream[nread + 1])
  /\ puts' = PutsAfter(nread + 1)
  /\ UNCHANGED <<stream, stderr_pipe>>

stream_eof ==
  /\ nread = Len(stream)
  /\ ReadEof
  /\ UNCHANGED runVars

stream_wait(rc, errlen) ==
  /\ Wait(rc, errlen)
  /\ puts' = PutsAfter(0)
  /\ UNCHANGED <<stream, stderr_pipe>>

stream_exception(len) ==
  /\ Except(len)
  /\ puts' = PutsAfter(0)
  /\ UNCHANGED <<stream, stderr_pipe>>

\* The child writes to stderr (stderr=subprocess.PIPE): the write goes into
\* the pipe's buffer while there is room, and stops the child when there is
\* none, until somebody reads the pipe. The call reads it at line 106 only.
child_write_stderr ==
  /\ pc \in {"read", "wait"} /\ p = "running"
  /\ IF stderr_pipe < MaxPipe
     THEN stderr_pipe' = stderr_pipe + 1 /\ UNCHANGED p
     ELSE p' = "blocked" /\ UNCHANGED stderr_pipe
  /\ UNCHANGED <<uiVars, q, pc, idx, locals, histVars, liveVars, stream, puts>>

RunnerNext ==
  \/ stream_line
  \/ stream_eof
  \/ \E rc \in ReturnCodes, errlen \in StderrLens : stream_wait(rc, errlen)
  \/ \E len \in ExcLens : stream_exception(len)
  \/ child_write_stderr
  \/ poll_queue
  \/ convert_all_next
  \/ convert_all_all_done

RunnerSpec == RunnerInit /\ [][RunnerNext]_vars

\* ============================================================ properties
RECURSIVE SumTo(_, _)
SumTo(f, n) == IF n = 0 THEN 0 ELSE f[n] + SumTo(f, n - 1)
\* file_done messages put in this batch, and those still waiting in q
FileDonesPut == SumTo(nFileDone, MaxFiles)
FileDonesWaiting == Cardinality({i \in 1..Len(q) : KindOf(q[i]) = "file_done"})
\* The worker thread has ended, by returning or by an exception.
WorkerEnded == pc \in {"done", "dead"}
\* The message box of the end of the batch has been shown.
BatchReported == notice # None
PutKind(put) == KindOf(put[1][2])
PutJob(put) == put[1][1]
\* x <= y for exact fractions <<num, den>> with positive denominators
FracLeq(x, y) == x[1] * y[2] <= y[1] * x[2]

\* ---- C1
\* May the message cur be put right after prev (None: first of the batch)?
Follows(prev, cur) ==
  LET k == PutJob(cur) IN
  CASE PutKind(cur) = "new_file" ->
         \/ prev = None /\ k = 1
         \/ prev # None /\ PutKind(prev) = "file_done" /\ PutJob(prev) = k - 1
    [] PutKind(cur) \in {"file_progress", "speed", "file_done"} ->
         /\ prev # None /\ PutJob(prev) = k
         /\ PutKind(prev) \in {"new_file", "file_progress", "speed"}
    [] PutKind(cur) = "all_done" ->
         prev = None \/ PutKind(prev) = "file_done"

\* C1: the messages of a batch are put in the order new_file(k), then
\* file_progress and speed messages of job k, then exactly one file_done of
\* job k, before anything of job k+1; all_done is put exactly once, last, and
\* after the file_done of every job that was started. Here: every put follows
\* an allowed predecessor, no job has two file_done and the batch no two
\* all_done, and once the worker thread has ended every started job has its
\* file_done and all_done has been put.
C1_EventOrder ==
  /\ [][(lastPut' # lastPut /\ lastPut' # None) => Follows(lastPut, lastPut')]_vars
  /\ [](\A k \in Jobs : nFileDone[k] <= 1)
  /\ [](nAllDone <= 1)
  /\ [](WorkerEnded =>
          /\ nAllDone = 1 /\ PutKind(lastPut) = "all_done"
          /\ \A k \in 1..nNewFile : nFileDone[k] = 1)

\* ---- C2
\* C2: a transcoder that cannot be launched gives that job a failure
\* file_done, and the worker goes on to the next job and to all_done: the
\* thread never ends on the exception.
C2_LaunchFailureReported ==
  \A k \in Jobs : result[k] = "launch" => nFileDone[k] = 1 /\ pc # "dead"

\* ---- C3
\* C3: a job whose process exits with a non-zero status gets one failure
\* file_done; every file_done handled has raised done_count by one and every
\* failure has added one entry to errors; and when the worker thread has
\* ended without cancellation, every job of the list was started.
Failures == {k \in Jobs : result[k] \in {"exit", "exception"}}
FailuresWaiting ==
  Cardinality({i \in 1..Len(q) : KindOf(q[i]) = "file_done" /\ ~q[i][2]})
C3_ExitFailureDoesNotStopBatch ==
  /\ \A k \in Jobs : result[k] = "exit" => nFileDone[k] = 1
  /\ done_count + FileDonesWaiting = FileDonesPut
  /\ Len(errors) + FailuresWaiting = Cardinality(Failures)
  /\ (WorkerEnded /\ ~cancel /\ (\E k \in Jobs : result[k] = "exit"))
       => nNewFile = total_count

\* ---- C4
\* C4: when cancel is asked with the worker between job k and job k+1 (job k
\* has returned, the cancel check of job k+1 is still to come), job k+1 gets
\* no new_file, the worker only goes on to put all_done, and when all_done
\* is handled done_count is k and the message box is the cancellation one.
\* The claim's case is k = 1.
C4_CancelBetweenJobs ==
  \A k \in 1..(MaxFiles - 1) :
    (cancelAt = Some(<<"loop", k + 1>>) /\ k + 1 <= total_count) =>
      /\ nNewFile = k
      /\ pc \in {"loop", "all_done", "done"}
      /\ (pc = "done" => nAllDone = 1)
      /\ (BatchReported => notice = Some("Cancelado") /\ done_count = k)
C4_Witness ==
  /\ cancelAt = Some(<<"loop", 2>>) /\ total_count >= 2
  /\ notice = Some("Cancelado") /\ done_count = 1 /\ nNewFile = 1

\* ---- C5
\* C5: when cancel is asked while the process of job k runs, the process
\* keeps running, each out_time_ms value read still gives its file_progress
\* message, job k gets its file_done once the worker has left it, and that
\* file_done is counted: when all_done is handled done_count is k.
C5_CancelIsCooperative ==
  \A k \in Jobs :
    cancelAt = Some(<<"converting", k>>) =>
      /\ idx >= k
      /\ idx = k =>
           /\ pc \in {"read", "wait"} /\ p = "running"
           /\ last_out_time # 0 => lastPct = Some(Pct(last_out_time, duration))
      /\ idx > k => nFileDone[k] = 1 /\ nNewFile = k
      /\ BatchReported => done_count = k
C5_Witness ==
  /\ cancelAt = Some(<<"converting", 1>>) /\ total_count >= 2
  /\ BatchReported /\ done_count = 1

\* ---- C6
\* C6: when all_done is handled, done_count is the number of file_done
\* messages put in the batch, it is at most the number of files, and it is
\* that number when cancel was not asked.
C6_CompletedCount ==
  BatchReported =>
    /\ done_count = FileDonesPut
    /\ done_count <= total_count
    /\ ~cancel => done_count = total_count
C6_Witness ==
  /\ BatchReported /\ ~cancel /\ total_count = 2 /\ done_count = 2
  /\ Len(errors) = 1

\* ---- C7
\* C7: 0 <= done_count <= total_count, and the value of the total bar is at
\* most 100 percent, in every state (any number of batches, one after the
\* other).
C7_CountAndFractionBounded ==
  /\ 0 <= done_count /\ done_count <= total_count
  /\ 0 <= pb_total[1] /\ pb_total[1] <= PctMax * pb_total[2]
C7_Witness ==
  /\ total_count = 2 /\ done_count = 1 /\ pb_total = <<2 * PctMax, 2>>
  /\ current_pct = PctMax

\* ---- C8
\* C8: in a run without cancellation the values the handler gives the total
\* bar never decrease, and the value set on a file_done is done_count /
\* total_count after the increment.
C8_AggregateMonotone ==
  /\ [][(Len(q') < Len(q) /\ ~cancel) => FracLeq(pb_total, pb_total')]_vars
  /\ [][(Len(q') < Len(q) /\ KindOf(Head(q)) = "file_done")
          => pb_total' = <<done_count' * PctMax, Max(1, total_count)>>]_vars

\* ---- C9
\* C9: for one job with a known duration, the percentages of successive
\* file_progress messages never decrease, whatever out_time_ms values the
\* stream carries.
C9_FractionMonotone ==
  [][(duration # None /\ lastPct # None /\ lastPct' # None)
       => lastPct'[1] >= lastPct[1]]_vars

\* ---- C10
\* C10: for a job whose probe gave no duration, every file_progress message
\* carries 0 percent and no ETA, the process is still launched, and once the
\* worker has left the job it has put exactly one file_done for it, which
\* is counted.
LeftJob(k) == idx > k \/ WorkerEnded
C10_UnknownDuration ==
  \A k \in Jobs :
    probed = Some(<<k, None>>) =>
      /\ (lastPut # None /\ PutKind(lastPut) = "file_progress"
            /\ PutJob(lastPut) = k)
           => lastPut[1][2][2] = 0 /\ lastPut[1][2][5] = None
      /\ LeftJob(k) => nFileDone[k] = 1
      /\ done_count + FileDonesWaiting = FileDonesPut

\* ============================================ properties of one run
\* The line is an out_time_ms line, and its value is / is not an integer.
IsOutTime(line) == Len(line) >= 2 /\ line[1] = "out_time_ms"
Parsable(line) == IsOutTime(line) /\ line[2] \in DOMAIN IntTable
Unparsable(line) == IsOutTime(line) /\ line[2] \notin DOMAIN IntTable
\* The value, in seconds, of the last parsable out_time_ms line among the
\* first n lines of the stream; 0, the value the call starts from, if none.
RECURSIVE LastGood(_)
LastGood(n) ==
  IF n = 0 THEN 0
  ELSE IF Parsable(stream[n]) THEN IntTable[stream[n][2]] \div UsPerSecond
  ELSE LastGood(n - 1)
\* The messages put for line n of the stream.
PutsOf(n) == {i \in 1..Len(puts) : puts[i][1] = n}

\* ---- C11
\* An out_time_ms line whose value is not an integer leaves last_out_time at
\* the last value that was parsed (0 before any), and exactly one
\* file_progress message is put for that line, carrying that value.
C11_ParseFailureKeepsElapsed ==
  /\ (pc = "read" /\ nread >= 1 /\ Unparsable(stream[nread]))
       => last_out_time = LastGood(nread - 1)
  /\ \A n \in 1..nread :
       Unparsable(stream[n])
         => /\ Cardinality(PutsOf(n)) = 1
            /\ \A i \in PutsOf(n) :
                 /\ KindOf(puts[i][2]) = "file_progress"
                 /\ puts[i][2][3] = LastGood(n - 1)
C11_Witness ==
  /\ pc = "read" /\ nread = 2 /\ duration # None
  /\ Parsable(stream[1]) /\ LastGood(1) = 3
  /\ Unparsable(stream[2])
  /\ last_out_time = 3
  /\ \E i \in PutsOf(2) : puts[i][2][3] = 3

\* ---- C12
\* For an out_time_ms line with an integer value, elapsed = value / 10^6, and
\* a known duration, the file_progress message put for the line has the
\* percentage of clamp(elapsed / duration, 0, 1), between 0 and 100, and the
\* ETA max(0, duration - elapsed), never negative.
ElapsedOf(line) == IntTable[line[2]] \div UsPerSecond
C12_FractionAndEta ==
  \A i \in 1..Len(puts) :
    LET n == puts[i][1]
        m == puts[i][2]
    IN (n > 0 /\ Parsable(stream[n]) /\ duration # None /\ pc \in {"read", "wait"})
       => LET e == ElapsedOf(stream[n])
              d == duration[1]
              pct == m[2]
              eta == m[5][1]
          IN /\ KindOf(m) = "file_progress"
             /\ m[3] = e
             /\ 0 <= pct /\ pct <= PctMax
             /\ e <= 0 => pct = 0
             /\ e >= d => pct = PctMax
             /\ (0 < e /\ e < d) => pct * d = PctMax * e
             /\ m[5] # None /\ eta >= 0
             /\ e <= d => eta = d - e
             /\ e > d => eta = 0
C12_Witness ==
  /\ duration # None /\ pc = "read" /\ Len(puts) = 2
  /\ puts[1][1] = 1 /\ ElapsedOf(stream[1]) > duration[1]
  /\ puts[1][2][2] = PctMax /\ puts[1][2][5] = Some(0)
  /\ puts[2][1] = 2 /\ ElapsedOf(stream[2]) < 0
  /\ puts[2][2][2] = 0 /\ puts[2][2][5] = Some(duration[1] - ElapsedOf(stream[2]))

\* ============================================ properties of the batch
\* ---- C13
\* At most one worker thread and at most one child process are alive at any
\* time, a child only under a live worker, and the start button is enabled
\* only when no worker is alive: a batch cannot be started over a running one.
C13_OneWorkerOneProcess ==
  /\ nWorkers \in {0, 1} /\ nProcs \in {0, 1}
  /\ nProcs = 1 => nWorkers = 1
  /\ btn_start = "normal" => nWorkers = 0
  /\ nWorkers = 1 <=> pc \notin {"none", "done", "dead"}
  /\ nProcs = 1 <=> p = "running"
C13_Witness ==
  /\ nWorkers = 1 /\ nProcs = 1 /\ cancel /\ btn_start = "disabled"
  /\ idx = 2 /\ Len(q) = MaxQueue

\* ---- C14
\* A started batch gets exactly one end-of-batch notice: none is shown before
\* all_done is handled, the start button is enabled again exactly when it is
\* shown, and once the worker has ended and q is drained it has been shown.
C14_OneNoticePerBatch ==
  /\ BatchReported => (nAllDone = 1 /\ pc = "done" /\ btn_start = "normal")
  /\ (pc # "none" /\ ~BatchReported) => btn_start = "disabled"
  /\ (WorkerEnded /\ q = <<>>) => BatchReported

\* ---- C15
\* A call of start_flow with no file selected or no destination chosen
\* starts nothing: no thread, nothing put on q, and the file list, the
\* counters, the error list, the cancel flag and the buttons stay as they are.
C15_BlankStartChangesNothing ==
  [][(startBlank' /\ ~startBlank)
       => UNCHANGED <<appVars, q, widgetVars, workerVars, histVars, cancelAt,
                      liveVars>>]_vars
C15_Witness ==
  /\ startBlank /\ pc = "done" /\ BatchReported
  /\ errors # <<>> /\ done_count = 2 /\ btn_start = "normal"

\* ---- C16
\* An exception raised inside the runner's try statement for job k is caught
\* there: the child is killed, exactly one file_done is put for k, a failure
\* carrying the exception's text, and the worker is back at the head of the
\* loop for job k + 1, which it starts unless cancel has been asked.
C16_ExceptionIsReported ==
  \A k \in Jobs :
    result[k] = "exception" =>
      /\ nFileDone[k] = 1
      /\ idx > k
      /\ (idx = k + 1 /\ pc = "loop") =>
            /\ p = "killed" /\ nProcs = 0
            /\ \E len \in ExcLens :
                 lastPut = Some(<<k, <<"file_done", FALSE,
                                       Text("exception", len)>>>>)
      /\ (k < total_count /\ cancelAt = None
            /\ ~(idx = k + 1 /\ pc \in {"loop", "new_file"}))
            => nNewFile >= k + 1
C16_Witness ==
  /\ result[1] = "exception" /\ cancelAt = None
  /\ nNewFile = 2 /\ idx = 2 /\ p = "running"
  /\ errors = <<Text("exception", 4)>>

\* ---- C17
\* Reading stops at the first line progress=end: no line after it is read, no
\* message comes from it or from a line after it, and the only message put
\* without a line is the terminal file_done, the last message of the run.
\* Blank lines, lines without "=" and lines with a key other than out_time_ms
\* and speed give no message.
FirstEnd ==
  LET ends == {n \in 1..Len(stream) : stream[n] = <<"progress", "end">>}
  IN IF ends = {} THEN Len(stream) + 1
     ELSE CHOOSE n \in ends : \A o \in ends : n <= o
Ignored(line) == Len(line) < 2 \/ line[1] \notin {"out_time_ms", "speed"}
C17_StopsAtEnd ==
  /\ nread <= FirstEnd
  /\ (nread = FirstEnd /\ nread <= Len(stream)) => pc # "read"
  /\ \A i \in 1..Len(puts) :
       IF puts[i][1] = 0
       THEN KindOf(puts[i][2]) = "file_done" /\ i = Len(puts)
       ELSE /\ puts[i][1] < FirstEnd
            /\ KindOf(puts[i][2]) \in {"file_progress", "speed"}
  /\ \A n \in 1..Len(stream) : Ignored(stream[n]) => PutsOf(n) = {}
C17_Witness ==
  /\ Len(stream) = 2 /\ FirstEnd = 1 /\ Parsable(stream[2])
  /\ pc = "loop" /\ Len(puts) = 1 /\ KindOf(puts[1][2]) = "file_done"
  /\ puts[1][2][2] = TRUE

\* ---- C18
\* After cancel is asked at most one more new_file is put, and only for the
\* job whose cancel check had passed when it was asked; a job whose check
\* comes later gets none. The worker goes on to job k's terminal message and
\* from there only to all_done, which is never put before that file_done.
InFlight(ph) == ph \in {"new_file", "launching", "converting"}
C18_CancelStopsNewFiles ==
  \A k \in Jobs, ph \in {"loop", "new_file", "launching", "converting"} :
    cancelAt = Some(<<ph, k>>) =>
      /\ ph = "loop" =>
           /\ nNewFile = k - 1 /\ idx = k
           /\ pc \in {"loop", "all_done", "done"}
      /\ ph = "new_file" =>
           /\ nNewFile \in {k - 1, k}
           /\ nNewFile = k - 1 <=> (idx = k /\ pc = "new_file")
      /\ ph \in {"launching", "converting"} => nNewFile = k
      /\ InFlight(ph) =>
           /\ idx \in {k, k + 1}
           /\ idx = k + 1 =>
                /\ pc \in {"loop", "all_done", "done"}
                /\ nFileDone[k] = 1
           /\ nAllDone = 1 =>
                /\ idx = k + 1 /\ nFileDone[k] = 1
                /\ PutKind(lastPut) = "all_done"
      /\ (ph = "converting" /\ WorkerEnded) => nAllDone = 1
C18_Witness ==
  /\ cancelAt = Some(<<"new_file", 1>>) /\ total_count = 3
  /\ nNewFile = 1 /\ nFileDone[1] = 1 /\ nAllDone = 1 /\ pc = "done"
  /\ BatchReported

\* ---- C19
\* The call and its child never wait for each other: while the call reads
\* the progress stream or waits for the exit, the child is never stopped on
\* a write to stderr. (A child stopped there writes no further line and does
\* not exit, and the call reads stderr only after the exit: no step of the
\* call is possible any more and no terminal message is ever put.)
C19_NoPipeDeadlock == ~(pc \in {"read", "wait"} /\ p = "blocked")

\* ---- C20
\* The loop was cut short: some job of the list got no new_file.
Truncated == nNewFile < total_count
AllSettled == \A k \in 1..total_count : nFileDone[k] = 1
ByErrors == IF errors # <<>> THEN "Terminado con errores" ELSE "Listo"
\* C20 as stated: the notice of the batch is the cancellation one if and
\* only if the loop was cut short, and when every job of the list got its
\* terminal message it is the warning or the success notice, by the error
\* list.
C20_CancelledIffTruncated ==
  BatchReported =>
    /\ notice = Some("Cancelado") <=> Truncated
    /\ AllSettled => notice = Some(ByErrors)
\* C20 as the code has it: the notice is the cancellation one if and only if
\* cancel was asked before all_done was handled, which is the case whenever
\* the loop was cut short; when cancel was not asked every job got its
\* terminal message and the notice is the warning or the success notice, by
\* the error list.
C20_CancelledIffAsked ==
  BatchReported =>
    /\ notice = Some("Cancelado") <=> cancelAt # None
    /\ Truncated => notice = Some("Cancelado")
    /\ cancelAt = None => (AllSettled /\ notice = Some(ByErrors))
C20_Witness ==
  /\ BatchReported /\ cancelAt = Some(<<"converting", 2>>) /\ total_count = 2
  /\ AllSettled /\ errors # <<>> /\ notice = Some("Cancelado")

=============================================================================
